---- MODULE Spec2Model ----
(***************************************************************************)
(* The resilient outbound-request orchestrator of src/script.js:           *)
(*   - apiRequestQueue: the sliding rate window (lines 80-115),            *)
(*   - apiUsageMonitor: the bounded usage log (lines 18-78),               *)
(*   - getRetryDelay: the backoff policy (lines 123-130),                  *)
(*   - makeApiRequestWithMultiFallback: the retry / fallback cascade of    *)
(*     one logical request (lines 133-281),                                *)
(*   - streamResponse: the streaming executables and the decoding loop     *)
(*     (lines 1150-1415).                                                  *)
(*                                                                         *)
(* Time is the millisecond clock Date.now() reads.  A synchronous stretch  *)
(* of JavaScript (between two awaits) is one atomic action that reads one  *)
(* clock value.  Error messages are sequences of tokens (the pieces the    *)
(* template literals of the source interpolate), numbers written as        *)
(* decimal strings.                                                        *)
(***************************************************************************)
EXTENDS Integers, Sequences, FiniteSets, TLC

VARIABLES
    now,             \* Date.now(): the millisecond clock
    requests,        \* apiRequestQueue.requests: timestamps, oldest first
    usageLog,        \* apiUsageMonitor.usageLog: entries, newest first
    alerts,          \* the alerts the last logApiCall() warned of
    ret,             \* what the last direct call of the rate window returned
    fallbackModels,  \* API_CONFIG.fallbackModels: the configured cascade
    jitter,          \* Math.random() * 1000 of this behaviour, in ms
    active,          \* the logical requests that are running
    pc,              \* per request: where the async function stands
    retryCount,      \* per request: let retryCount
    fallbackLevel,   \* per request: let fallbackLevel
    currentApiCall,  \* per request: let currentApiCall
    error,           \* per request: the error the catch block last caught
    waitMs,          \* per request: the argument of the pending wait(ms)
    wakeAt,          \* per request: when the pending timer is due
    outcome,         \* per request: the value returned or the error thrown
    trace,           \* per request: one record per finished physical attempt
    factoryCalls,    \* per request: the arguments of each createFallbackCall
    targetElement,   \* per request: the element (or null) and its alerts
    oddErrors,       \* per request: failures drawn so far that are not plain
    caller,          \* per request: the function that built the executables
    fetched,         \* per request: the fetch() calls made so far
    recorded,        \* per request: the addRequest() calls made so far
    waitTimes,       \* direct calls: the getWaitTime() results (the last two)
                     \* since a call was last recorded
    delay,           \* direct calls: the last getRetryDelay() call
    body,            \* per request: the response body being read, in chunks
    streamedContent, \* per request: let streamedContent, as text tokens
    rendered,        \* per request: each transcript handed to the element
    lines,           \* per request: one record per line the loop has handled
    logged           \* direct calls: the logApiCall() calls made

sharedVars ==
    <<now, requests, usageLog, alerts, ret, fallbackModels, jitter, active>>
reqVars == <<pc, retryCount, fallbackLevel, currentApiCall, error, waitMs,
             wakeAt, outcome, trace, factoryCalls, targetElement, oddErrors,
             caller, fetched, recorded>>
decoderVars == <<body, streamedContent, rendered, lines>>
partVars == <<delay, decoderVars, logged>>
vars == <<sharedVars, reqVars, waitTimes, partVars>>

----------------------------------------------------------------------------
(* API_CONFIG, src/script.js lines 4-16 *)

maxRetries == 3
retryDelay == 1000
maxRetryDelay == 10000
rateLimitPerMinute == 20
rateLimitResetTime == 60000
ConfiguredFallbackModels == <<"gpt-4o-mini", "gpt-4o", "gpt-3.5-turbo">>
maxLogSize == 100

(* Bounds of the model *)

\* failures of one logical request that are not the plain HTTP 500
MaxOddErrors == 2
\* how long one network exchange takes, in ms
CallTime == 200
\* direct use of the rate window: the clock stops here
MaxTime == 180000
\* direct use of the rate window: addRequest is not called beyond this length
MaxWindow == 22
\* ms between two calls of the burst an earlier logical request left behind
BurstGap == 1000
\* the frames of one response body
MaxFrames == 3
\* direct use of the usage monitor: the calls of logApiCall
MaxLogged == 2
\* direct use of the backoff policy: the largest retry count asked for
MaxRetryCount == 8

Reqs == {1, 2}

Max(a, b) == IF a >= b THEN a ELSE b
Min(a, b) == IF a <= b THEN a ELSE b

RECURSIVE Pow2(_)
Pow2(n) == IF n <= 0 THEN 1 ELSE 2 * Pow2(n - 1)

----------------------------------------------------------------------------
(* apiRequestQueue, lines 80-115.  Each operation is given the queue and   *)
(* the clock value it reads and yields the new queue (and its result).     *)

\* faulty variant: the filtered list is not assigned back to this.requests
cleanupKeepsAll(reqs, currentTime) == reqs

cleanup(reqs, currentTime) ==
    LET windowStart == currentTime - rateLimitResetTime
    IN  SelectSeq(reqs, LAMBDA timestamp : timestamp >= windowStart)

addRequest(reqs, t) == cleanup(Append(reqs, t), t)

\* faulty variant: the limit itself still admits
canMakeRequestInclusive(reqs, t) ==
    LET kept == cleanup(reqs, t)
    IN  [requests |-> kept, value |-> Len(kept) <= rateLimitPerMinute]

canMakeRequest(reqs, t) ==
    LET kept == cleanup(reqs, t)
    IN  [requests |-> kept, value |-> Len(kept) < rateLimitPerMinute]

\* faulty variant: the wait is measured from the newest timestamp
getWaitTimeNewest(reqs, t) ==
    LET can == canMakeRequest(reqs, t)
        kept == cleanup(can.requests, t)
    IN  IF can.value THEN [requests |-> can.requests, value |-> 0]
        ELSE IF Len(kept) = 0 THEN [requests |-> kept, value |-> 0]
        ELSE [requests |-> kept,
              value |-> Max(0, (kept[Len(kept)] + rateLimitResetTime) - t)]

\* faulty variant: the wait is the time since the oldest timestamp
getWaitTimeElapsed(reqs, t) ==
    LET can == canMakeRequest(reqs, t)
        kept == cleanup(can.requests, t)
    IN  IF can.value THEN [requests |-> can.requests, value |-> 0]
        ELSE IF Len(kept) = 0 THEN [requests |-> kept, value |-> 0]
        ELSE [requests |-> kept, value |-> Max(0, t - kept[1])]

getWaitTime(reqs, t) ==
    LET can == canMakeRequest(reqs, t)
        kept == cleanup(can.requests, t)
    IN  IF can.value THEN [requests |-> can.requests, value |-> 0]
        ELSE IF Len(kept) = 0 THEN [requests |-> kept, value |-> 0]
        ELSE [requests |-> kept,
              value |-> Max(0, (kept[1] + rateLimitResetTime) - t)]

----------------------------------------------------------------------------
(* getRetryDelay, lines 123-130; j is Math.random() * 1000 *)

\* faulty variant: the exponential delay is not capped
getRetryDelayUncapped(n, j) == retryDelay * Pow2(n) + j

getRetryDelay(n, j) ==
    Min(maxRetryDelay, retryDelay * Pow2(n)) + j

----------------------------------------------------------------------------
(* apiUsageMonitor.logApiCall, lines 22-40: unshift, then pop when the log *)
(* is over its capacity.  A timestamp is the ms value that                 *)
(* new Date().toISOString() writes and new Date(...).getTime() reads back. *)

\* faulty variant: the log is never shortened
logApiCallUnbounded(log, t, endpoint, model, success, errorCode) ==
    <<[timestamp |-> t, endpoint |-> endpoint, model |-> model,
       success |-> success, errorCode |-> errorCode]>> \o log

logApiCall(log, t, endpoint, model, success, errorCode) ==
    LET entry == [timestamp |-> t, endpoint |-> endpoint, model |-> model,
                  success |-> success, errorCode |-> errorCode]
        grown == <<entry>> \o log
    IN  IF Len(grown) > maxLogSize THEN SubSeq(grown, 1, Len(grown) - 1)
        ELSE grown

RECURSIVE Sum(_)
Sum(seq) == IF Len(seq) = 0 THEN 0 ELSE Head(seq) + Sum(Tail(seq))

\* faulty variant: the two thresholds themselves raise the alerts
checkForSuspiciousActivityInclusive(log) ==
    LET recentCalls == SubSeq(log, 1, Min(20, Len(log)))
        failedCalls == SelectSeq(recentCalls, LAMBDA call : ~call.success)
        timeDiffs == [i \in 1..(Len(recentCalls) - 1) |->
                        recentCalls[i].timestamp - recentCalls[i + 1].timestamp]
    IN  (IF /\ Len(recentCalls) >= 5
            /\ 10 * Len(failedCalls) >= 7 * Len(recentCalls)
         THEN {"highFailureRate"} ELSE {})
        \cup
        (IF /\ Len(recentCalls) >= 5
            /\ Sum(timeDiffs) <= 500 * Len(timeDiffs)
         THEN {"rapidCalls"} ELSE {})

\* checkForSuspiciousActivity, lines 42-62, run at the end of logApiCall:
\* the alerts console.warn is called with.  failed / total > 0.7 and
\* sum / count < 500 are compared as whole numbers
checkForSuspiciousActivity(log) ==
    LET recentCalls == SubSeq(log, 1, Min(20, Len(log)))
        failedCalls == SelectSeq(recentCalls, LAMBDA call : ~call.success)
        timeDiffs == [i \in 1..(Len(recentCalls) - 1) |->
                        recentCalls[i].timestamp - recentCalls[i + 1].timestamp]
    IN  (IF /\ Len(recentCalls) >= 5
            /\ 10 * Len(failedCalls) > 7 * Len(recentCalls)
         THEN {"highFailureRate"} ELSE {})
        \cup
        (IF /\ Len(recentCalls) >= 5
            /\ Sum(timeDiffs) < 500 * Len(timeDiffs)
         THEN {"rapidCalls"} ELSE {})

----------------------------------------------------------------------------
(* The executables and their errors.                                       *)

\* primaryApiCall of callGPT4 (lines 1084-1104)
PrimaryCall == [kind |-> "primary", model |-> "gpt-5", level |-> -1]

\* createFallbackCall(fallbackModel, fallbackLevel), lines 1107-1139
createFallbackCall(model, level) ==
    [kind |-> "fallback", model |-> model, level |-> level]

\* faulty variant: the result of apiCall() instead of currentApiCall()
ResultOfPrimary(call) ==
    [content |-> "content", model |-> PrimaryCall.model, level |-> -1]

\* data.choices[0].message.content of the exchange the executable made
ResultOf(call) == [content |-> "content", model |-> call.model, level |-> call.level]

\* the prefix of the error an executable throws on a non-ok response
\* (lines 1099 and 1133)
FailedPrefix(call) ==
    IF call.kind = "primary" THEN "API request failed:"
    ELSE "Fallback API request failed:"

\* `${prefix} ${response.status} ${response.statusText} - ${message}`
HttpError(call, status, text) == <<FailedPrefix(call), status>> \o text

\* the plain transient failure
PlainError(call) == HttpError(call, "500", <<"Internal Server Error - Unknown error">>)

\* the other failures: a rate-limit response, a response whose text holds
\* the digits 429 although its status is 400, and a fetch that rejects
OddErrors(call) ==
    { HttpError(call, "429", <<"Too Many Requests - Rate limit reached">>),
      HttpError(call, "400",
                <<"Bad Request - maximum context length is", "429", "tokens">>),
      <<"Failed to fetch">> }

DigitStrings == {"400", "429", "500"}

\* parseInt of a status string
parseInt(s) ==
    CASE s = "400" -> 400
      [] s = "429" -> 429
      [] s = "500" -> 500

\* `${API_CONFIG.maxRetries}` inside a template literal
numberText(n) ==
    CASE n = 0 -> "0" [] n = 1 -> "1" [] n = 2 -> "2" [] n = 3 -> "3"
      [] n = 4 -> "4" [] n = 5 -> "5"

\* error.message.match(/API request failed: (\d+)/), lines 226-229: the
\* pattern is not anchored, so it also matches inside the fallback prefix.
\* The code is {} for null and {n} for the number n.
errorCodeOf(msg) ==
    LET hits == { i \in 1..(Len(msg) - 1) :
                    /\ msg[i] \in {"API request failed:",
                                   "Fallback API request failed:"}
                    /\ msg[i + 1] \in DigitStrings }
    IN  IF hits = {} THEN {}
        ELSE {parseInt(msg[(CHOOSE i \in hits : \A k \in hits : i <= k) + 1])}

\* error.message.replace(/^(API request failed:|Fallback API request
\* failed:)\s*\d+\s*/, ''), line 230
errorMessageOf(msg) ==
    IF /\ Len(msg) >= 2
       /\ msg[1] \in {"API request failed:", "Fallback API request failed:"}
       /\ msg[2] \in DigitStrings
    THEN SubSeq(msg, 3, Len(msg))
    ELSE msg

\* error.message.includes('429'), line 240
includes429(msg) == \E i \in 1..Len(msg) : msg[i] = "429"

\* the two errors the cascade itself throws, lines 271 and 277
AllExhaustedError(msg) ==
    <<"All fallback options exhausted. Last error:">> \o msg
FailedAfterError(msg) ==
    <<"Failed after", numberText(maxRetries),
      "retry attempts on all models:">> \o msg

\* apiCall.toString() of primaryApiCall (lines 1084-1104) and of
\* streamingApiCall (lines 1185-1275), as far as lines 141-150 look at it:
\* the names it mentions, and what follows each `model:` (a quoted string
\* or, as here, a name)
primaryApiCallText ==
    [names |-> {"fetch", "API_URL", "API_KEY", "model", "messages"},
     afterModelKey |-> <<[quoted |-> FALSE, text |-> "model"]>>]

\* apiCallString.match(/model:\s*['"]([^'"]+)['"]/), line 146: the first
\* `model:` that a quoted string follows, if any
modelMatch(apiCallString) ==
    SelectSeq(apiCallString.afterModelKey, LAMBDA m : m.quoted)

\* lines 136-153: endpoint and model read off the text of the closure.
\* primaryApiCall mentions API_URL and writes `model: model` without
\* quotes, so the defaults of lines 136-137 stay for the model
inferredEndpoint ==
    IF "TRANSCRIPTION_API_URL" \in primaryApiCallText.names
    THEN "transcription"
    ELSE IF "API_URL" \in primaryApiCallText.names THEN "chat"
    ELSE "unknown"
inferredModel ==
    IF "TRANSCRIPTION_API_URL" \in primaryApiCallText.names
    THEN "gpt-4o-transcribe"
    ELSE IF /\ "API_URL" \in primaryApiCallText.names
            /\ Len(modelMatch(primaryApiCallText)) > 0
    THEN modelMatch(primaryApiCallText)[1].text
    ELSE "unknown"

\* lines 212-214 and 234-236
currentModel(level, models) ==
    IF level = -1 THEN inferredModel
    ELSE IF level < Len(models) THEN models[level + 1]
    ELSE "unknown-fallback"

\* showFallbackNotification, lines 159-194: an alert is built for level 0
\* and level 1 only and is put in front of the element's children
showFallbackNotification(element, level, errorMessage) ==
    LET put(alert) ==
            [element EXCEPT !.children =
                <<[alert |-> alert, text |-> errorMessage]>> \o @]
    IN  IF ~element.present THEN element
        ELSE IF level = 0 THEN put("warning")
        ELSE IF level = 1 THEN put("danger")
        ELSE element

\* line 255: a fallback target is left after the tier of this level
hasNextFallback(level, models) == level < Len(models) - 1

\* faulty variant: the level is advanced twice
nextFallbackTwice(level, models) ==
    [level |-> level + 2,
     model |-> IF level + 3 <= Len(models) THEN models[level + 3]
               ELSE "undefined"]

\* faulty variant: the cascade jumps to its last target
nextFallbackSkipping(level, models) ==
    [level |-> Len(models) - 1, model |-> models[Len(models)]]

\* lines 258-261: fallbackLevel++ and the target read at the new level,
\* undefined past the end of the list
nextFallback(level, models) ==
    [level |-> level + 1,
     model |-> IF level + 2 <= Len(models) THEN models[level + 2]
               ELSE "undefined"]

\* faulty variant: the check of makeApiRequestWithRetry (line 372), which knows
\* no tiers
retriesSpentOnAnyTier(rc, level, models) == rc >= maxRetries

\* faulty variant: the check is missing
retriesNeverSpent(rc, level, models) == FALSE

\* line 276: the check that ends the request after the catch block
retriesSpent(rc, level, models) ==
    rc >= maxRetries /\ level >= Len(models) - 1

----------------------------------------------------------------------------
(* The states a logical request starts from.                               *)

\* the cascades the request is configured with: the spec's reference
\* configuration of two fallback targets, and the three of line 10-14
CascadeConfigs ==
    { SubSeq(ConfiguredFallbackModels, 1, 2), ConfiguredFallbackModels }

\* the values Math.random() * 1000 takes here (0 <= jitter < 1000), as
\* whole ms; one behaviour draws the same value at every call
Jitters == {0, 999}

\* the rate window earlier logical requests of the page left behind: none,
\* or a full window of calls BurstGap ms apart
Burst(n) == [i \in 1..n |-> BurstGap * i]
InitWindows == { <<>>, Burst(rateLimitPerMinute) }

NoOutcome == [kind |-> "none", value |-> <<>>, message |-> <<>>]
NoRet == [op |-> "none", at |-> 0, can |-> FALSE, wait |-> 0]

\* no part has been called directly yet
NoDirectCalls ==
    /\ waitTimes = <<>>
    /\ delay = <<>>
    /\ logged = 0

\* a response body: the frames the server wrote, their text, and the chunks
\* reader.read() is still to deliver
NoBody ==
    [state |-> "none", frames |-> <<>>, text |-> <<>>, cut |-> 0,
     chunks |-> <<>>]

\* no stream is being read
NoStreams ==
    /\ body = [r \in Reqs |-> NoBody]
    /\ streamedContent = [r \in Reqs |-> <<>>]
    /\ rendered = [r \in Reqs |-> <<>>]
    /\ lines = [r \in Reqs |-> <<>>]

\* lines 133-138, once per logical request in `running`
InitRequests(running) ==
    /\ active = running
    /\ pc = [r \in Reqs |-> IF r \in running THEN "loop" ELSE "idle"]
    /\ retryCount = [r \in Reqs |-> 0]
    /\ fallbackLevel = [r \in Reqs |-> -1]
    /\ currentApiCall = [r \in Reqs |-> PrimaryCall]
    /\ error = [r \in Reqs |-> <<>>]
    /\ waitMs = [r \in Reqs |-> 0]
    /\ wakeAt = [r \in Reqs |-> 0]
    /\ outcome = [r \in Reqs |-> NoOutcome]
    /\ trace = [r \in Reqs |-> <<>>]
    /\ factoryCalls = [r \in Reqs |-> <<>>]
    /\ oddErrors = [r \in Reqs |-> 0]
    /\ fetched = [r \in Reqs |-> 0]
    /\ recorded = [r \in Reqs |-> 0]

\* the logical requests are made by callGPT4 (line 1142) or by
\* streamResponse (line 1415)
CalledBy(name) == caller = [r \in Reqs |-> name]

Init ==
    /\ now = rateLimitResetTime
    /\ requests \in InitWindows
    /\ usageLog = <<>>
    /\ alerts = {}
    /\ ret = NoRet
    /\ fallbackModels \in CascadeConfigs
    /\ jitter \in Jitters
    /\ InitRequests({1})
    /\ CalledBy("callGPT4")
    /\ NoDirectCalls
    /\ NoStreams
    /\ targetElement \in [Reqs -> {[present |-> p, children |-> <<>>] : p \in BOOLEAN}]
    /\ \A r \in Reqs \ active : ~targetElement[r].present

----------------------------------------------------------------------------
(* makeApiRequestWithMultiFallback, lines 196-281, one action per          *)
(* synchronous stretch.                                                    *)

\* the executable of the request is running: its first fetch is under way,
\* or the second one that streamResponse's fallback executable makes
InFlight == {"inflight", "refetch"}

\* the fallback executable streamResponse builds for level 0 streams first,
\* inside a try of its own (lines 1289-1376)
StreamsFirst(r) ==
    /\ caller[r] = "streamResponse"
    /\ currentApiCall[r].kind = "fallback"
    /\ currentApiCall[r].level = 0
    /\ pc[r] = "inflight"

\* faulty variant: the variable is the module's, one for all invocations
assignShared(variable, r, value) == [q \in DOMAIN variable |-> value]

\* lines 134-138: retryCount, fallbackLevel and currentApiCall are declared
\* inside the function, so an assignment writes the invocation's own
assign(variable, r, value) == [variable EXCEPT ![r] = value]

\* faulty variant: the timer is not awaited
waitNotAwaited(t, ms) == t

\* lines 118-120: the time at which a timer of ms set at t resolves
wait(t, ms) == t + ms

\* lines 199-209: the admission check; when admitted at once, the call is
\* recorded and the executable started; otherwise the request waits
StartAttempt(r) ==
    /\ pc[r] = "loop"
    /\ LET can == canMakeRequest(requests, now)
           wt == getWaitTime(can.requests, now)
       IN  IF can.value
           THEN /\ requests' = addRequest(can.requests, now)
                /\ recorded' = [recorded EXCEPT ![r] = @ + 1]
                /\ fetched' = [fetched EXCEPT ![r] = @ + 1]
                /\ pc' = [pc EXCEPT ![r] = "inflight"]
                /\ UNCHANGED <<waitMs, wakeAt>>
           ELSE /\ requests' = wt.requests
                /\ pc' = [pc EXCEPT ![r] = "admitWait"]
                /\ waitMs' = [waitMs EXCEPT ![r] = wt.value]
                /\ wakeAt' = [wakeAt EXCEPT ![r] = wait(now, wt.value)]
                /\ UNCHANGED <<fetched, recorded>>
    /\ UNCHANGED <<now, usageLog, alerts, ret, fallbackModels, jitter, active>>
    /\ UNCHANGED <<waitTimes, partVars>>
    /\ UNCHANGED <<retryCount, fallbackLevel, currentApiCall, error, outcome,
                   trace, factoryCalls, targetElement, oddErrors, caller>>

\* lines 202-209: the admission wait is over; the call is recorded and the
\* executable started, without a second check
AdmitWaitDone(r) ==
    /\ pc[r] = "admitWait"
    /\ now' = Max(now, wakeAt[r])
    /\ requests' = addRequest(requests, now')
    /\ recorded' = [recorded EXCEPT ![r] = @ + 1]
    /\ fetched' = [fetched EXCEPT ![r] = @ + 1]
    /\ pc' = [pc EXCEPT ![r] = "inflight"]
    /\ UNCHANGED <<usageLog, alerts, ret, fallbackModels, jitter, active>>
    /\ UNCHANGED <<waitTimes, partVars>>
    /\ UNCHANGED <<retryCount, fallbackLevel, currentApiCall, error, waitMs,
                   wakeAt, outcome, trace, factoryCalls, targetElement,
                   oddErrors, caller>>

\* lines 209-217: the executable returns result
ReturnResult(r, result) ==
    /\ now' = now + CallTime
    /\ usageLog' = logApiCall(usageLog, now', inferredEndpoint,
                              currentModel(fallbackLevel[r], fallbackModels),
                              TRUE, {})
    /\ alerts' = checkForSuspiciousActivity(usageLog')
    /\ outcome' = [outcome EXCEPT ![r] =
                     [kind |-> "returned",
                      value |-> <<result>>,
                      message |-> <<>>]]
    /\ trace' = [trace EXCEPT ![r] =
                   Append(@, [tier |-> fallbackLevel[r], ok |-> TRUE,
                              message |-> <<>>, retry |-> retryCount[r],
                              wait |-> 0])]
    /\ pc' = [pc EXCEPT ![r] = "succeeded"]
    /\ UNCHANGED <<requests, ret, fallbackModels, jitter, active>>
    /\ UNCHANGED <<retryCount, fallbackLevel, currentApiCall, error, waitMs,
                   wakeAt, factoryCalls, targetElement, oddErrors, caller,
                   fetched, recorded>>

CallSucceeds(r) ==
    /\ pc[r] \in InFlight
    /\ ReturnResult(r, ResultOf(currentApiCall[r]))
    /\ UNCHANGED <<waitTimes, partVars>>

\* lines 219-279 up to the next await: the executable throws msg
CatchError(r, msg) ==
    LET level == fallbackLevel[r]
        rc == retryCount[r]
        next == nextFallback(level, fallbackModels)
    IN
    /\ now' = now + CallTime
    /\ error' = [error EXCEPT ![r] = msg]
    /\ usageLog' = logApiCall(usageLog, now', inferredEndpoint,
                              currentModel(level, fallbackModels),
                              FALSE, errorCodeOf(msg))
    /\ alerts' = checkForSuspiciousActivity(usageLog')
    /\ IF includes429(msg)
       THEN \* lines 240-245
            /\ waitMs' = [waitMs EXCEPT ![r] = 5000 + getRetryDelay(rc, jitter)]
            /\ wakeAt' = [wakeAt EXCEPT ![r] = wait(now', waitMs'[r])]
            /\ pc' = [pc EXCEPT ![r] = "backoff"]
            /\ UNCHANGED <<retryCount, fallbackLevel, currentApiCall, outcome,
                           factoryCalls, targetElement>>
       ELSE IF rc < maxRetries
       THEN \* lines 248-254
            /\ waitMs' = [waitMs EXCEPT ![r] = getRetryDelay(rc, jitter)]
            /\ wakeAt' = [wakeAt EXCEPT ![r] = wait(now', waitMs'[r])]
            /\ pc' = [pc EXCEPT ![r] = "backoff"]
            /\ UNCHANGED <<retryCount, fallbackLevel, currentApiCall, outcome,
                           factoryCalls, targetElement>>
       ELSE IF hasNextFallback(level, fallbackModels)
       THEN \* lines 256-268, then the check of line 276
            /\ retryCount' = assign(retryCount, r, 0)
            /\ fallbackLevel' = assign(fallbackLevel, r, next.level)
            /\ currentApiCall' = assign(currentApiCall, r,
                  createFallbackCall(next.model, next.level))
            /\ factoryCalls' = [factoryCalls EXCEPT ![r] =
                  Append(@, <<next.model, next.level>>)]
            /\ targetElement' = [targetElement EXCEPT ![r] =
                  showFallbackNotification(@, next.level, errorMessageOf(msg))]
            /\ IF retriesSpent(0, next.level, fallbackModels)
               THEN /\ pc' = [pc EXCEPT ![r] = "exhausted"]
                    /\ outcome' = [outcome EXCEPT ![r] =
                          [kind |-> "thrown", value |-> <<>>,
                           message |-> FailedAfterError(msg)]]
               ELSE /\ pc' = [pc EXCEPT ![r] = "loop"]
                    /\ UNCHANGED outcome
            /\ UNCHANGED <<waitMs, wakeAt>>
       ELSE \* lines 270-272
            /\ pc' = [pc EXCEPT ![r] = "exhausted"]
            /\ outcome' = [outcome EXCEPT ![r] =
                  [kind |-> "thrown", value |-> <<>>,
                   message |-> AllExhaustedError(msg)]]
            /\ UNCHANGED <<retryCount, fallbackLevel, currentApiCall, waitMs,
                           wakeAt, factoryCalls, targetElement>>
    /\ trace' = [trace EXCEPT ![r] =
                   Append(@, [tier |-> level, ok |-> FALSE,
                              message |-> msg, retry |-> rc,
                              wait |-> IF pc'[r] = "backoff" THEN waitMs'[r]
                                       ELSE 0])]

CallFails(r) ==
    /\ pc[r] \in InFlight
    /\ ~StreamsFirst(r)
    /\ \/ /\ CatchError(r, PlainError(currentApiCall[r]))
          /\ UNCHANGED oddErrors
       \/ /\ oddErrors[r] < MaxOddErrors
          /\ \E msg \in OddErrors(currentApiCall[r]) : CatchError(r, msg)
          /\ oddErrors' = [oddErrors EXCEPT ![r] = @ + 1]
    /\ UNCHANGED <<requests, ret, fallbackModels, jitter, active>>
    /\ UNCHANGED <<waitTimes, partVars>>
    /\ UNCHANGED <<caller, fetched, recorded>>

\* lines 243-244 and 252-253 after the await, then the check of line 276
BackoffDone(r) ==
    /\ pc[r] = "backoff"
    /\ now' = Max(now, wakeAt[r])
    /\ retryCount' = assign(retryCount, r, retryCount[r] + 1)
    /\ IF retriesSpent(retryCount'[r], fallbackLevel[r], fallbackModels)
       THEN /\ pc' = [pc EXCEPT ![r] = "exhausted"]
            /\ outcome' = [outcome EXCEPT ![r] =
                  [kind |-> "thrown", value |-> <<>>,
                   message |-> FailedAfterError(error[r])]]
       ELSE /\ pc' = [pc EXCEPT ![r] = "loop"]
            /\ UNCHANGED outcome
    /\ UNCHANGED <<requests, usageLog, alerts, ret, fallbackModels, jitter, active>>
    /\ UNCHANGED <<waitTimes, partVars>>
    /\ UNCHANGED <<fallbackLevel, currentApiCall, error, waitMs, wakeAt,
                   trace, factoryCalls, targetElement, oddErrors, caller,
                   fetched, recorded>>

Next ==
    \/ \E r \in active : StartAttempt(r)
    \/ \E r \in active : AdmitWaitDone(r)
    \/ \E r \in active : CallSucceeds(r)
    \/ \E r \in active : CallFails(r)
    \/ \E r \in active : BackoffDone(r)

Spec == Init /\ [][Next]_vars

----------------------------------------------------------------------------
(* The logical requests of streamResponse (lines 1150-1415): the same loop *)
(* with the streaming executables.                                         *)

\* lines 1289-1379: the streamed exchange of the level-0 fallback executable
\* fails (a non-ok response at line 1307, or a read that rejects); the
\* executable's own catch logs it and the executable goes on to the
\* non-streaming fetch of line 1382
FallbackStreamFails(r) ==
    /\ StreamsFirst(r)
    /\ now' = now + CallTime
    /\ fetched' = [fetched EXCEPT ![r] = @ + 1]
    /\ pc' = [pc EXCEPT ![r] = "refetch"]
    /\ UNCHANGED <<requests, usageLog, alerts, ret, fallbackModels, jitter, active>>
    /\ UNCHANGED <<waitTimes, partVars>>
    /\ UNCHANGED <<retryCount, fallbackLevel, currentApiCall, error, waitMs,
                   wakeAt, outcome, trace, factoryCalls, targetElement,
                   oddErrors, caller, recorded>>

\* line 1066: streamResponse is given an element
StreamInit ==
    /\ now = rateLimitResetTime
    /\ requests \in InitWindows
    /\ usageLog = <<>>
    /\ alerts = {}
    /\ ret = NoRet
    /\ fallbackModels = ConfiguredFallbackModels
    /\ jitter = 0
    /\ InitRequests({1})
    /\ CalledBy("streamResponse")
    /\ NoDirectCalls
    /\ NoStreams
    /\ targetElement =
         [r \in Reqs |-> [present |-> r \in active, children |-> <<>>]]

StreamNext ==
    \/ \E r \in active : StartAttempt(r)
    \/ \E r \in active : AdmitWaitDone(r)
    \/ \E r \in active : CallSucceeds(r)
    \/ \E r \in active : CallFails(r)
    \/ \E r \in active : BackoffDone(r)
    \/ \E r \in active : FallbackStreamFails(r)

SpecStream == StreamInit /\ [][StreamNext]_vars

----------------------------------------------------------------------------
(* The rate window used directly: apiRequestQueue's three operations       *)
(* called at the clock's current value, and the clock advancing.           *)

TickSteps == {rateLimitResetTime \div 2, rateLimitResetTime}

WindowInit ==
    /\ now = 0
    /\ requests = <<>>
    /\ usageLog = <<>>
    /\ alerts = {}
    /\ ret = NoRet
    /\ fallbackModels = ConfiguredFallbackModels
    /\ jitter = 0
    /\ InitRequests({})
    /\ CalledBy("callGPT4")
    /\ NoDirectCalls
    /\ NoStreams
    /\ targetElement = [r \in Reqs |-> [present |-> FALSE, children |-> <<>>]]

\* apiRequestQueue.addRequest(), lines 83-87
AddRequest ==
    /\ Len(requests) < MaxWindow
    /\ requests' = addRequest(requests, now)
    /\ ret' = [op |-> "addRequest", at |-> now, can |-> FALSE, wait |-> 0]
    /\ waitTimes' = <<>>
    /\ UNCHANGED <<now, usageLog, alerts, fallbackModels, jitter, active, reqVars>>
    /\ UNCHANGED partVars

\* apiRequestQueue.canMakeRequest(), lines 95-99
CanMakeRequest ==
    /\ LET can == canMakeRequest(requests, now)
       IN  /\ requests' = can.requests
           /\ ret' = [op |-> "canMakeRequest", at |-> now, can |-> can.value,
                      wait |-> 0]
    /\ UNCHANGED <<now, usageLog, alerts, fallbackModels, jitter, active, reqVars>>
    /\ UNCHANGED waitTimes
    /\ UNCHANGED partVars

\* apiRequestQueue.getWaitTime(), lines 102-114; the result is kept with
\* the time of the call, what canMakeRequest() answers then, and when the
\* oldest timestamp the call retained leaves the window
GetWaitTime ==
    /\ LET wt == getWaitTime(requests, now)
           kept == wt.requests
           this == [at |-> now, wait |-> wt.value,
                    can |-> canMakeRequest(kept, now).value,
                    expiry |-> IF Len(kept) = 0 THEN {}
                               ELSE {kept[1] + rateLimitResetTime}]
       IN  /\ requests' = kept
           /\ ret' = [op |-> "getWaitTime", at |-> now, can |-> FALSE,
                      wait |-> wt.value]
           /\ waitTimes' = IF Len(waitTimes) = 0 THEN <<this>>
                           ELSE <<waitTimes[Len(waitTimes)], this>>
    /\ UNCHANGED <<now, usageLog, alerts, fallbackModels, jitter, active, reqVars>>
    /\ UNCHANGED partVars

\* the clock advances
Tick ==
    /\ \E d \in TickSteps : now + d <= MaxTime /\ now' = now + d
    /\ UNCHANGED <<requests, usageLog, alerts, ret, fallbackModels, jitter, active,
                   reqVars, waitTimes, partVars>>

WindowNext ==
    \/ AddRequest
    \/ CanMakeRequest
    \/ GetWaitTime
    \/ Tick

SpecWindow == WindowInit /\ [][WindowNext]_vars

----------------------------------------------------------------------------
(* The backoff policy used directly: getRetryDelay called with a retry     *)
(* count and the jitter Math.random() * 1000 gives, in whole ms.           *)

JitterValues == 0..999

DelayInit ==
    /\ now = 0
    /\ requests = <<>>
    /\ usageLog = <<>>
    /\ alerts = {}
    /\ ret = NoRet
    /\ fallbackModels = ConfiguredFallbackModels
    /\ jitter = 0
    /\ InitRequests({})
    /\ CalledBy("callGPT4")
    /\ NoDirectCalls
    /\ NoStreams
    /\ targetElement = [r \in Reqs |-> [present |-> FALSE, children |-> <<>>]]

\* getRetryDelay(retryCount), lines 123-130; the function keeps no state,
\* so a behaviour makes one call
GetRetryDelay ==
    /\ Len(delay) = 0
    /\ \E n \in 0..MaxRetryCount, j \in JitterValues :
         delay' = <<[retryCount |-> n, jitter |-> j,
                     value |-> getRetryDelay(n, j)]>>
    /\ UNCHANGED <<sharedVars, reqVars, waitTimes, decoderVars, logged>>

DelayNext == GetRetryDelay

SpecDelay == DelayInit /\ [][DelayNext]_vars

----------------------------------------------------------------------------
(* The usage monitor used directly: logApiCall called at the clock's       *)
(* current value, on a log that earlier calls have filled.                 *)

\* how many entries earlier calls left, how many of them failed, and the
\* ms between two of them
LogLengths == {0, 4, 5, 10, 19, 20, 21, maxLogSize - 1, maxLogSize}
FailureCounts == {0, 3, 4, 7, 8, 14, 15}
CallGaps == {499, 500, 501}

\* the log n calls gap ms apart leave, k of them failed: the newest k, or
\* the oldest k
EarlierLog(n, k, gap, newestFailed) ==
    [i \in 1..n |->
       [timestamp |-> gap * (n - i), endpoint |-> "chat", model |-> "gpt-5",
        success |-> IF newestFailed THEN i > k ELSE i <= n - k,
        errorCode |-> IF (IF newestFailed THEN i > k ELSE i <= n - k)
                      THEN {} ELSE {500}]]

MonitorInit ==
    /\ \E n \in LogLengths, k \in FailureCounts, gap \in CallGaps,
          newestFailed \in BOOLEAN :
         /\ k <= n
         /\ usageLog = EarlierLog(n, k, gap, newestFailed)
         /\ now = gap * n
    /\ alerts = IF Len(usageLog) = 0 THEN {}
                ELSE checkForSuspiciousActivity(usageLog)
    /\ requests = <<>>
    /\ ret = NoRet
    /\ fallbackModels = ConfiguredFallbackModels
    /\ jitter = 0
    /\ InitRequests({})
    /\ CalledBy("callGPT4")
    /\ NoDirectCalls
    /\ NoStreams
    /\ targetElement = [r \in Reqs |-> [present |-> FALSE, children |-> <<>>]]

\* apiUsageMonitor.logApiCall(endpoint, model, success, errorCode),
\* lines 22-40
LogApiCall ==
    /\ logged < MaxLogged
    /\ \E success \in BOOLEAN :
         usageLog' = logApiCall(usageLog, now, "chat", "gpt-5", success,
                                IF success THEN {} ELSE {500})
    /\ alerts' = checkForSuspiciousActivity(usageLog')
    /\ logged' = logged + 1
    /\ UNCHANGED <<now, requests, ret, fallbackModels, jitter, active>>
    /\ UNCHANGED <<reqVars, waitTimes, delay, decoderVars>>

MonitorNext ==
    \/ LogApiCall
    \/ Tick

SpecMonitor == MonitorInit /\ [][MonitorNext]_vars

----------------------------------------------------------------------------
(* The decoding loop of streamResponse.streamingApiCall, lines 1210-1274.  *)
(* Text is a sequence of tokens: the data marker, the opening and closing  *)
(* of the JSON payload, pieces of content, the sentinel's characters, a    *)
(* blank, and the newline.  A chunk boundary falls between two tokens.     *)

Newline == "\n"
Blank == " "
DataMarker == "data: "
DoneText == "[DONE]"
\* what a delta's text is made of
ContentTokens == {"a", "b", DoneText}

\* the frames a server writes: `data: {..."content": c...}`, c possibly
\* empty or absent; `data: [DONE]`; a data frame whose JSON is cut short;
\* and a line that holds a blank only
DataFrame(content) == <<DataMarker, "{">> \o content \o <<"}", Newline>>
DoneFrame == <<DataMarker, DoneText, Newline>>
MalformedFrame == <<DataMarker, "{", "a", Newline>>
BlankFrame == <<Blank, Newline>>
FrameKinds ==
    { DataFrame(<<"a">>), DataFrame(<<"b">>), DataFrame(<<DoneText>>),
      DataFrame(<<>>), DoneFrame, MalformedFrame, BlankFrame }

\* response bodies of at most MaxFrames frames
Streams == UNION { [1..n -> FrameKinds] : n \in 1..MaxFrames }

RECURSIVE Flatten(_)
Flatten(seqs) ==
    IF Len(seqs) = 0 THEN <<>> ELSE Head(seqs) \o Flatten(Tail(seqs))

\* the body arrives whole (cut = 0) or in two chunks, cut after `cut` tokens
Chunked(text, cut) ==
    IF cut = 0 THEN <<text>>
    ELSE <<SubSeq(text, 1, cut), SubSeq(text, cut + 1, Len(text))>>

\* chunk.split('\n'), line 1227
RECURSIVE split(_)
split(chunk) ==
    IF \A i \in 1..Len(chunk) : chunk[i] # Newline THEN <<chunk>>
    ELSE LET i == CHOOSE k \in 1..Len(chunk) :
                    /\ chunk[k] = Newline
                    /\ \A j \in 1..(k - 1) : chunk[j] # Newline
         IN  <<SubSeq(chunk, 1, i - 1)>>
                 \o split(SubSeq(chunk, i + 1, Len(chunk)))

\* String.prototype.trim
RECURSIVE trimStart(_)
trimStart(line) ==
    IF Len(line) > 0 /\ Head(line) = Blank THEN trimStart(Tail(line))
    ELSE line
RECURSIVE trimEnd(_)
trimEnd(line) ==
    IF Len(line) > 0 /\ line[Len(line)] = Blank
    THEN trimEnd(SubSeq(line, 1, Len(line) - 1))
    ELSE line
trim(line) == trimEnd(trimStart(line))

\* line.includes('[DONE]'), line 1232
includesDone(line) == \E i \in 1..Len(line) : line[i] = DoneText

\* line.replace(/^data: /, ''), line 1235
stripDataMarker(line) ==
    IF Len(line) > 0 /\ Head(line) = DataMarker THEN Tail(line) ELSE line

\* JSON.parse(jsonString) and json.choices[0]?.delta?.content || '',
\* lines 1240-1241: either throws, or yield the delta's text
parseDelta(jsonString) ==
    IF /\ Len(jsonString) >= 2
       /\ Head(jsonString) = "{"
       /\ jsonString[Len(jsonString)] = "}"
       /\ \A i \in 2..(Len(jsonString) - 1) : jsonString[i] \in ContentTokens
    THEN [threw |-> FALSE,
          contentDelta |-> SubSeq(jsonString, 2, Len(jsonString) - 1)]
    ELSE [threw |-> TRUE, contentDelta |-> <<>>]

\* faulty variant: a line JSON.parse throws on empties the transcript
processLineLosing(st, line, element) ==
    LET jsonString == trim(stripDataMarker(line))
        parsed == parseDelta(jsonString)
        skipped == includesDone(line) \/ Len(jsonString) = 0
        contentDelta == IF skipped \/ parsed.threw THEN <<>>
                        ELSE parsed.contentDelta
        after == IF ~skipped /\ parsed.threw THEN <<>>
                 ELSE st.streamedContent \o contentDelta
        sunk == IF element.present /\ Len(contentDelta) > 0 THEN <<after>>
                ELSE <<>>
    IN  [streamedContent |-> after,
         rendered |-> st.rendered \o sunk,
         lines |-> Append(st.lines,
                     [line |-> line, before |-> st.streamedContent,
                      after |-> after, sunk |-> sunk,
                      warned |-> ~skipped /\ parsed.threw])]

\* the body of the for loop, lines 1231-1270, for one line; st holds
\* streamedContent, what was handed to the element, and the lines handled
processLine(st, line, element) ==
    LET jsonString == trim(stripDataMarker(line))
        parsed == parseDelta(jsonString)
        skipped == includesDone(line) \/ Len(jsonString) = 0
        contentDelta == IF skipped \/ parsed.threw THEN <<>>
                        ELSE parsed.contentDelta
        after == st.streamedContent \o contentDelta
        sunk == IF element.present /\ Len(contentDelta) > 0 THEN <<after>>
                ELSE <<>>
    IN  [streamedContent |-> after,
         rendered |-> st.rendered \o sunk,
         lines |-> Append(st.lines,
                     [line |-> line, before |-> st.streamedContent,
                      after |-> after, sunk |-> sunk,
                      warned |-> ~skipped /\ parsed.threw])]

\* lines 1227-1271 for one chunk: the lines that are not blank, in order
RECURSIVE processLines(_, _, _)
processLines(st, todo, element) ==
    IF Len(todo) = 0 THEN st
    ELSE processLines(processLine(st, Head(todo), element), Tail(todo),
                      element)

decodeChunk(st, chunk, element) ==
    processLines(st, SelectSeq(split(chunk), LAMBDA l : trim(l) # <<>>),
                 element)

\* lines 1214-1225 and 1227-1271: reader.read() delivers the next chunk
ReadChunk(r) ==
    /\ body[r].state = "open"
    /\ Len(body[r].chunks) > 0
    /\ LET st == decodeChunk([streamedContent |-> streamedContent[r],
                              rendered |-> rendered[r], lines |-> lines[r]],
                             Head(body[r].chunks), targetElement[r])
       IN  /\ streamedContent' = [streamedContent EXCEPT ![r] =
                                    st.streamedContent]
           /\ rendered' = [rendered EXCEPT ![r] = st.rendered]
           /\ lines' = [lines EXCEPT ![r] = st.lines]
    /\ body' = [body EXCEPT ![r].chunks = Tail(@)]
    /\ UNCHANGED <<sharedVars, reqVars, waitTimes, delay, logged>>

\* lines 1216-1219 and 1274: reader.read() reports done; the loop ends and
\* streamedContent is returned
StreamCompleted(r) ==
    /\ body[r].state = "open"
    /\ Len(body[r].chunks) = 0
    /\ body' = [body EXCEPT ![r].state = "done"]
    /\ UNCHANGED <<sharedVars, reqVars, waitTimes, delay, logged>>
    /\ UNCHANGED <<streamedContent, rendered, lines>>

\* line 1210: one response body is open, read from its start
DecoderInit ==
    /\ now = 0
    /\ requests = <<>>
    /\ usageLog = <<>>
    /\ alerts = {}
    /\ ret = NoRet
    /\ fallbackModels = ConfiguredFallbackModels
    /\ jitter = 0
    /\ InitRequests({})
    /\ CalledBy("streamResponse")
    /\ NoDirectCalls
    /\ \E p \in BOOLEAN :
         targetElement = [r \in Reqs |-> [present |-> p /\ r = 1,
                                          children |-> <<>>]]
    /\ \E frames \in Streams :
         LET text == Flatten(frames)
         IN  \E cut \in 0..(Len(text) - 1) :
               body = [r \in Reqs |->
                         IF r = 1
                         THEN [state |-> "open", frames |-> frames,
                               text |-> text, cut |-> cut,
                               chunks |-> Chunked(text, cut)]
                         ELSE NoBody]
    /\ streamedContent = [r \in Reqs |-> <<>>]
    /\ rendered = [r \in Reqs |-> <<>>]
    /\ lines = [r \in Reqs |-> <<>>]

DecoderNext ==
    \/ \E r \in Reqs : ReadChunk(r)
    \/ \E r \in Reqs : StreamCompleted(r)

SpecDecoder == DecoderInit /\ [][DecoderNext]_vars

----------------------------------------------------------------------------
(* What is read off a request's history.                                   *)

\* the physical attempts request r has started
Attempts(r) == Len(trace[r]) + (IF pc[r] \in InFlight THEN 1 ELSE 0)

\* the tiers the attempts of a history ran on, each tier once
RECURSIVE TierPath(_)
TierPath(tr) ==
    IF Len(tr) = 0 THEN <<>>
    ELSE LET front == TierPath(SubSeq(tr, 1, Len(tr) - 1))
             tier == tr[Len(tr)].tier
         IN  IF Len(front) > 0 /\ front[Len(front)] = tier THEN front
             ELSE Append(front, tier)

AllFailed(tr) == \A i \in 1..Len(tr) : ~tr[i].ok
NoRateLimit(tr) == \A i \in 1..Len(tr) : ~includes429(tr[i].message)
AttemptsOn(tr, tier) == Cardinality({i \in 1..Len(tr) : tr[i].tier = tier})
Successes(log) == Cardinality({i \in 1..Len(log) : log[i].success})

\* msg holds the tokens of part, in order and side by side
Contains(msg, part) ==
    \E k \in 0..(Len(msg) - Len(part)) :
        \A i \in 1..Len(part) : msg[k + i] = part[i]

----------------------------------------------------------------------------
(* The claims about the cascade, checked under Spec.                       *)

\* C1: with a primary and two fallback targets, a request whose every
\* attempt fails with a non-rate-limit error passes through Primary,
\* FallbackTier(0), FallbackTier(1) and ends Exhausted after exactly
\* 3 * maxRetries physical attempts.
C1_ExhaustedAfterThreeTimesMaxRetries ==
    \A r \in active :
        ( /\ pc[r] = "exhausted"
          /\ Len(fallbackModels) = 2
          /\ AllFailed(trace[r])
          /\ NoRateLimit(trace[r]) )
        => /\ TierPath(trace[r]) = <<-1, 0, 1>>
           /\ Len(trace[r]) = 3 * maxRetries

\* C2: with maxRetries = 3, when the first three attempts (on the primary)
\* fail with transient errors and the next attempt succeeds, that attempt
\* ran on fallback tier 0: 4 attempts, one tier transition, and the result
\* is the one fallback tier 0 produced.
C2_FourthAttemptOnTierZero ==
    \A r \in active :
        ( /\ pc[r] = "succeeded"
          /\ Len(trace[r]) = maxRetries + 1
          /\ \A i \in 1..maxRetries :
                ~trace[r][i].ok /\ ~includes429(trace[r][i].message) )
        => /\ Len(factoryCalls[r]) = 1
           /\ trace[r][maxRetries + 1].tier = 0
           /\ outcome[r].value =
                 <<ResultOf(createFallbackCall(fallbackModels[1], 0))>>

C4_RetryCountAtMostMax ==
    \A r \in active : retryCount[r] <= maxRetries

\* What follows the i-th attempt of request r when it failed carrying 429:
\* a wait of 5000 ms plus getRetryDelay(retryCount), then retryCount
\* incremented, the tier kept and another attempt on the same target.
\* `ends` says when the request may end Exhausted after the wait instead.
RateLimitStep(r, i, ends(_)) ==
    LET a == trace[r][i]
    IN  includes429(a.message) =>
        /\ a.wait = 5000 + getRetryDelay(a.retry, jitter)
        /\ i < Len(trace[r]) =>
             /\ trace[r][i + 1].tier = a.tier
             /\ trace[r][i + 1].retry = a.retry + 1
             /\ ~ends(a)
        /\ i = Len(trace[r]) =>
             /\ fallbackLevel[r] = a.tier
             /\ pc[r] \in {"backoff", "loop", "admitWait", "inflight",
                           "exhausted"}
             /\ pc[r] = "backoff" =>
                  /\ retryCount[r] = a.retry
                  /\ waitMs[r] = a.wait
                  /\ wakeAt[r] = now + a.wait
             /\ pc[r] \in {"loop", "admitWait", "inflight"} =>
                  retryCount[r] = a.retry + 1 /\ ~ends(a)
             /\ pc[r] = "exhausted" => ends(a)

C6_ExhaustedMessage ==
    \A r \in active :
        pc[r] = "exhausted" =>
            /\ outcome[r].kind = "thrown"
            /\ Len(trace[r]) > 0
            /\ Contains(outcome[r].message, trace[r][Len(trace[r])].message)
            /\ \E k \in 1..(Len(outcome[r].message)
                              - Len(trace[r][Len(trace[r])].message)) :
                  outcome[r].message[k] = numberText(maxRetries)

C6_Witness ==
    /\ pc[1] = "exhausted"
    /\ TierPath(trace[1]) = <<-1, 0, 1, 2>>
    /\ AllFailed(trace[1])

\* C7: on an attempt success the request logs exactly one success entry,
\* returns that attempt's result and does nothing more: the successful
\* attempt is its last, every attempt has its one log entry, and when the
\* primary succeeds on attempt 1 the factory was never called and the log
\* holds that one success.
C7_SuccessEndsRequest ==
    \A r \in active :
        pc[r] = "succeeded" =>
            LET n == Len(trace[r]) IN
            /\ n > 0 /\ trace[r][n].ok
            /\ \A i \in 1..(n - 1) : ~trace[r][i].ok
            /\ outcome[r].kind = "returned"
            /\ outcome[r].value =
                  <<[content |-> "content",
                     model |-> IF trace[r][n].tier = -1 THEN PrimaryCall.model
                               ELSE fallbackModels[trace[r][n].tier + 1],
                     level |-> trace[r][n].tier]>>
            /\ Len(usageLog) = n
            /\ usageLog[1].success
            /\ Successes(usageLog) = 1
            /\ Len(factoryCalls[r]) = Len(TierPath(trace[r])) - 1
            /\ n = 1 => factoryCalls[r] = <<>> /\ Len(usageLog) = 1

\* the primary succeeded on its first attempt (scenario A)
C7_Witness ==
    /\ pc[1] = "succeeded"
    /\ Len(trace[1]) = 1
    /\ trace[1][1].tier = -1

----------------------------------------------------------------------------
(* The claims about the rate window, checked under SpecWindow.  ret is     *)
(* the operation last called, at time ret.at; requests is the window it    *)
(* left.                                                                   *)

Accessed == ret.op \in {"addRequest", "canMakeRequest", "getWaitTime"}

\* C8 as claimed: immediately after any access to the rate window at time
\* now, every retained timestamp satisfies now - timestamp <
\* rateLimitResetTime.
C8_RetainedStrictlyInsideWindow ==
    Accessed =>
        \A i \in 1..Len(requests) : ret.at - requests[i] < rateLimitResetTime

\* C8, amended: immediately after any access to the rate window at time
\* now, every retained timestamp satisfies now - timestamp <=
\* rateLimitResetTime: a timestamp exactly rateLimitResetTime old is kept.
C8_RetainedInsideWindow ==
    Accessed =>
        \A i \in 1..Len(requests) : ret.at - requests[i] <= rateLimitResetTime

\* an access purged the window and kept a timestamp exactly
\* rateLimitResetTime old
C8_Witness ==
    /\ Accessed
    /\ Len(requests) > 0
    /\ ret.at - requests[1] = rateLimitResetTime

\* C9 as claimed: after the purge, a retained count less than or equal to
\* rateLimitPerMinute makes canMakeRequest() return true.
C9_AtMostLimitAdmits ==
    ret.op = "canMakeRequest" =>
        (Len(requests) <= rateLimitPerMinute => ret.can)

\* C9, amended: after the purge, canMakeRequest() returns true when the
\* retained count is less than rateLimitPerMinute, and false when it is
\* equal to it or greater.
C9_BelowLimitAdmits ==
    ret.op = "canMakeRequest" =>
        (ret.can <=> Len(requests) < rateLimitPerMinute)

\* canMakeRequest() answered with the window one below its limit
C9_Witness ==
    /\ ret.op = "canMakeRequest"
    /\ Len(requests) = rateLimitPerMinute - 1
    /\ ret.can

\* C10: getWaitTime() returns 0 whenever canMakeRequest() is true;
\* otherwise it returns exactly (oldest retained timestamp +
\* rateLimitResetTime - now); the value is never negative.
C10_WaitTime ==
    ret.op = "getWaitTime" =>
        /\ ret.wait >= 0
        /\ Len(requests) < rateLimitPerMinute => ret.wait = 0
        /\ Len(requests) >= rateLimitPerMinute =>
              ret.wait = requests[1] + rateLimitResetTime - ret.at

\* getWaitTime() was asked with the window full and the oldest timestamp
\* still to expire
C10_Witness ==
    /\ ret.op = "getWaitTime"
    /\ Len(requests) >= rateLimitPerMinute
    /\ ret.wait > 0
    /\ requests[1] < requests[Len(requests)]

\* C11: of two getWaitTime() calls with no call recorded between them, the
\* later one, when made no later than the expiry of the oldest timestamp the
\* earlier one retained, returns no more than the earlier one; and a call
\* made when canMakeRequest() is true returns exactly 0
C11_WaitNeverGrows ==
    /\ \A i \in 1..Len(waitTimes) :
          waitTimes[i].can => waitTimes[i].wait = 0
    /\ Len(waitTimes) = 2 =>
          LET first == waitTimes[1]
              second == waitTimes[2]
          IN  /\ first.at <= second.at
              /\ (\A e \in first.expiry : second.at <= e) =>
                    second.wait <= first.wait

\* a denied call, then time passes and a later call, still denied, returns
\* less
C11_Witness ==
    /\ Len(waitTimes) = 2
    /\ waitTimes[1].wait > 0
    /\ waitTimes[1].at < waitTimes[2].at
    /\ \A e \in waitTimes[1].expiry : waitTimes[2].at <= e
    /\ 0 < waitTimes[2].wait
    /\ waitTimes[2].wait < waitTimes[1].wait

\* C12: no fetch is made without a timestamp of its own: a logical request
\* has recorded at least as many calls in the rate window as it has made
\* HTTP exchanges
C12_EveryExchangeRecorded ==
    \A r \in Reqs : fetched[r] <= recorded[r]

----------------------------------------------------------------------------
(* What is read off a response body and the lines handled.                 *)

\* the decoder before it has read anything
FreshDecoder == [streamedContent |-> <<>>, rendered |-> <<>>, lines |-> <<>>]

\* the offsets of the text at which a frame ends
FrameEnds(frames) ==
    { Len(Flatten(SubSeq(frames, 1, k))) : k \in 1..Len(frames) }

\* the body was cut inside a frame
CutMidFrame(b) == b.cut > 0 /\ b.cut \notin FrameEnds(b.frames)

\* data frames with well-formed JSON, the sentinel frame at most as the last
ValidStream(frames) ==
    \A k \in 1..Len(frames) :
      \/ frames[k] \in {DataFrame(<<"a">>), DataFrame(<<"b">>),
                        DataFrame(<<DoneText>>), DataFrame(<<>>)}
      \/ k = Len(frames) /\ frames[k] = DoneFrame

\* C13: a valid stream of several frames, delivered in two chunks cut inside
\* a frame, ends with the transcript the same stream ends with when it is
\* delivered as one chunk
C13_SplitSameTranscript ==
    \A r \in Reqs :
      ( /\ body[r].state = "done"
        /\ Len(body[r].frames) >= 2
        /\ ValidStream(body[r].frames)
        /\ CutMidFrame(body[r]) )
      => streamedContent[r] =
           decodeChunk(FreshDecoder, body[r].text,
                       targetElement[r]).streamedContent

\* the payload of a line: what is left of the marker and the blanks
Payload(line) == trim(stripDataMarker(line))

\* C14: once the sentinel frame has been handled, no later line changes the
\* transcript and none is handed to the element
C14_DoneEndsStream ==
    \A r \in Reqs : \A i, j \in 1..Len(lines[r]) :
      (i < j /\ Payload(lines[r][i].line) = <<DoneText>>)
      => /\ lines[r][j].after = lines[r][j].before
         /\ lines[r][j].sunk = <<>>

\* JSON.parse throws on the payload of the line, which is not the sentinel
MalformedJson(line) ==
    /\ Len(Payload(line)) > 0
    /\ Payload(line) # <<DoneText>>
    /\ parseDelta(Payload(line)).threw

\* the lines of a chunk that are not blank
LinesOf(chunk) == SelectSeq(split(chunk), LAMBDA l : trim(l) # <<>>)

\* the chunk without its lines of malformed JSON
WithoutMalformed(chunk) ==
    LET kept == SelectSeq(LinesOf(chunk), LAMBDA l : ~MalformedJson(l))
    IN  Flatten([i \in 1..Len(kept) |-> Append(kept[i], Newline)])

\* the chunks the reader delivers for a body
Delivered(b) == Chunked(b.text, b.cut)

RECURSIVE decodeAll(_, _, _)
decodeAll(st, chunks, element) ==
    IF Len(chunks) = 0 THEN st
    ELSE decodeAll(decodeChunk(st, Head(chunks), element), Tail(chunks),
                   element)

DeltaOf(frame) ==
    IF /\ Len(frame) >= 4
       /\ frame[1] = DataMarker
       /\ frame[2] = "{"
       /\ frame[Len(frame) - 1] = "}"
    THEN SubSeq(frame, 3, Len(frame) - 2)
    ELSE <<>>

\* the deltas of the first k frames, one after the other
DeltasUpTo(frames, k) == Flatten([i \in 1..k |-> DeltaOf(frames[i])])

\* one full transcript per frame that carries a non-empty delta
RECURSIVE TranscriptsUpTo(_, _)
TranscriptsUpTo(frames, k) ==
    IF k = 0 THEN <<>>
    ELSE TranscriptsUpTo(frames, k - 1)
           \o (IF Len(DeltaOf(frames[k])) > 0
               THEN <<DeltasUpTo(frames, k)>> ELSE <<>>)

\* C16: when the body has been read, the element has been handed one
\* transcript per frame that carries a non-empty delta, each the deltas of
\* all frames so far, and nothing for the other frames
C16_SinkGetsFullTranscript ==
    \A r \in Reqs :
      (body[r].state = "done" /\ targetElement[r].present)
      => rendered[r] = TranscriptsUpTo(body[r].frames, Len(body[r].frames))

\* what does hold, of the lines handled: a line hands the element at most
\* one transcript, the whole of streamedContent, exactly when it added a
\* delta
SinkPerHandledLine ==
    \A r \in Reqs : \A i \in 1..Len(lines[r]) :
      LET l == lines[r][i]
      IN  IF targetElement[r].present /\ l.after # l.before
          THEN l.sunk = <<l.after>> ELSE l.sunk = <<>>

----------------------------------------------------------------------------
(* What is read off the usage log.                                         *)

\* C17: the log never holds more than maxLogSize entries and is ordered
\* newest first; a call of logApiCall puts its entry at the head and keeps
\* the entries there were, in their order, dropping only the last (the
\* oldest) one, and only when the log was full
C17_BoundedNewestFirst ==
    /\ [](/\ Len(usageLog) <= maxLogSize
          /\ \A i \in 1..(Len(usageLog) - 1) :
                usageLog[i].timestamp >= usageLog[i + 1].timestamp)
    /\ [][usageLog' # usageLog =>
            /\ Len(usageLog') >= 1
            /\ usageLog'[1].timestamp = now'
            /\ Tail(usageLog') =
                  IF Len(usageLog) = maxLogSize
                  THEN SubSeq(usageLog, 1, maxLogSize - 1)
                  ELSE usageLog]_vars

\* two calls on a log that was full or one short of it: an entry has been
\* dropped
C17_Witness ==
    /\ logged = MaxLogged
    /\ MaxLogged >= 2
    /\ Len(usageLog) = maxLogSize
    /\ usageLog[1].timestamp > usageLog[2].timestamp

\* the most recent entries the check looks at, those of them that failed,
\* and the time from the oldest of them to the newest
RecentCount == Min(20, Len(usageLog))
RecentFailures == Cardinality({i \in 1..RecentCount : ~usageLog[i].success})
RecentSpan == usageLog[1].timestamp - usageLog[RecentCount].timestamp

\* C19: after a call of logApiCall the high-failure alert has been raised
\* exactly when there are at least 5 recent entries and failures / total
\* > 0.7, and the rapid-calls alert exactly when there are at least 5 and
\* the mean gap, span / (total - 1), is < 500 ms
C19_AlertsIffThresholds ==
    Len(usageLog) > 0 =>
      /\ "highFailureRate" \in alerts <=>
            (RecentCount >= 5 /\ 10 * RecentFailures > 7 * RecentCount)
      /\ "rapidCalls" \in alerts <=>
            (RecentCount >= 5 /\ RecentSpan < 500 * (RecentCount - 1))
      /\ alerts \subseteq {"highFailureRate", "rapidCalls"}

\* a call after which 14 of the 20 recent entries have failed (exactly 0.7)
\* and the mean gap is exactly 500 ms: no alert
C19_Witness ==
    /\ logged > 0
    /\ RecentCount = 20
    /\ 10 * RecentFailures = 7 * RecentCount
    /\ RecentSpan = 500 * (RecentCount - 1)
    /\ alerts = {}

\* calls after which both alerts are raised
C19_BothRaised ==
    /\ logged > 0
    /\ alerts = {"highFailureRate", "rapidCalls"}

\* the model of the target an attempt ran on
TargetModel(tier) ==
    IF tier = -1 THEN PrimaryCall.model ELSE fallbackModels[tier + 1]

\* C18: the log holds one entry per attempt the request has finished, in
\* their order (newest first), each with the attempt's outcome and the model
\* of the target the attempt ran on
C18_OneEntryPerAttemptWithModel ==
    \A r \in Reqs :
      active = {r} =>
        /\ Len(usageLog) = Len(trace[r])
        /\ \A i \in 1..Len(trace[r]) :
              LET entry == usageLog[Len(usageLog) - i + 1]
              IN  /\ entry.success = trace[r][i].ok
                  /\ entry.model = TargetModel(trace[r][i].tier)

\* what does hold: one entry per finished attempt, with its outcome, and on
\* a fallback tier with that tier's model
OneEntryPerAttempt ==
    \A r \in Reqs :
      active = {r} =>
        /\ Len(usageLog) = Len(trace[r])
        /\ \A i \in 1..Len(trace[r]) :
              LET entry == usageLog[Len(usageLog) - i + 1]
              IN  /\ entry.success = trace[r][i].ok
                  /\ trace[r][i].tier >= 0 =>
                        entry.model = TargetModel(trace[r][i].tier)

----------------------------------------------------------------------------
(* What is read off a call of getRetryDelay.                               *)

\* C20: the delay returned for retry count n is the smaller of
\* maxRetryDelay and retryDelay * 2^n, plus a jitter of 0 to 1000 ms; the
\* part without the jitter is no less than that for n - 1; and the whole is
\* at most maxRetryDelay + 1000
C20_RetryDelay ==
    \A i \in 1..Len(delay) :
      LET n == delay[i].retryCount
          exponential == retryDelay * (2 ^ n)
          capped == delay[i].value - delay[i].jitter
      IN  /\ capped = IF exponential <= maxRetryDelay THEN exponential
                      ELSE maxRetryDelay
          /\ delay[i].jitter >= 0 /\ delay[i].jitter <= 1000
          /\ n > 0 => capped >= getRetryDelay(n - 1, 0)
          /\ capped <= getRetryDelay(n + 1, 0)
          /\ delay[i].value <= maxRetryDelay + 1000

\* a call with a retry count whose exponential delay is over the cap, and
\* the largest jitter
C20_Witness ==
    /\ Len(delay) = 1
    /\ retryDelay * (2 ^ delay[1].retryCount) > maxRetryDelay
    /\ delay[1].jitter = 999
    /\ delay[1].value = maxRetryDelay + 999


----------------------------------------------------------------------------
(* The attempts of one logical request, one after the other.              *)

\* the attempts request r has started and not yet seen end
Unfinished(r) == recorded[r] - Len(trace[r])

\* the time the newest finished attempt ended plus the wait it was given
EarliestRestart(r) ==
    IF Len(trace[r]) = 0 THEN 0
    ELSE usageLog[1].timestamp + trace[r][Len(trace[r])].wait

\* C21: within one logical request at most one attempt is in flight at any
\* time, and an attempt starts only when every earlier attempt has ended
\* and the backoff wait given after the previous one has elapsed
C21_AttemptsSequential ==
    [][\A r \in active :
          /\ Unfinished(r)' \in {0, 1}
          /\ (Unfinished(r)' = 1) <=> (pc'[r] \in InFlight)
          /\ recorded'[r] > recorded[r] =>
                /\ Unfinished(r) = 0
                /\ now' >= EarliestRestart(r)]_vars

\* a retry is in flight after a backoff wait
C21_Witness ==
    /\ pc[1] = "inflight"
    /\ Len(trace[1]) >= 2
    /\ trace[1][Len(trace[1])].wait > 0
    /\ now >= EarliestRestart(1)


\* the factory calls a request on tier level has made when it called the
\* factory once per tier it entered, in order, with that tier's target
OncePerTier(level, models) ==
    [k \in 1..(level + 1) |-> <<models[k], k - 1>>]

\* C22: the factory is invoked only at a tier transition and once per
\* transition, with the new tier's target fallbackModels[k] and its index k;
\* at the transition retryCount is reset to 0 and the tier advances by
\* exactly one, never skipping a tier and never going back
C22_FactoryOncePerTransition ==
    [][\A r \in active :
          /\ fallbackLevel'[r] \in {fallbackLevel[r], fallbackLevel[r] + 1}
          /\ factoryCalls'[r] = OncePerTier(fallbackLevel'[r], fallbackModels)
          /\ (factoryCalls'[r] # factoryCalls[r])
                <=> (fallbackLevel'[r] = fallbackLevel[r] + 1)
          /\ fallbackLevel'[r] # fallbackLevel[r] =>
                /\ retryCount'[r] = 0
                /\ currentApiCall'[r] =
                      createFallbackCall(fallbackModels[fallbackLevel'[r] + 1],
                                         fallbackLevel'[r])]_vars

\* the request has made its second transition and is about to try tier 1
C22_Witness ==
    /\ pc[1] = "loop"
    /\ fallbackLevel[1] = 1
    /\ retryCount[1] = 0
    /\ factoryCalls[1] = <<<<"gpt-4o-mini", 0>>, <<"gpt-4o", 1>>>>


\* C23: with a UI target present, one advisory notification is emitted at
\* every tier transition of a logical request, the transition into each
\* configured fallback tier included, and none at any other step
C23_NotificationPerTransition ==
    [][\A r \in active :
          targetElement[r].present =>
             /\ Len(targetElement'[r].children) =
                   Len(targetElement[r].children)
                     + (IF fallbackLevel'[r] # fallbackLevel[r] THEN 1 ELSE 0)
             /\ Len(targetElement'[r].children) = fallbackLevel'[r] + 1]_vars


\* C24: a logical request is Exhausted only when an attempt on the last
\* fallback target failed with a non-rate-limit error while retryCount was
\* maxRetries; and a non-rate-limit failure with retryCount < maxRetries, on
\* any target, is followed by a backoff wait and another attempt on the
\* same target
C24_ExhaustedOnlyAtMaxRetries ==
    \A r \in active :
        LET n == Len(trace[r])
        IN  /\ pc[r] = "exhausted" =>
                  /\ n > 0
                  /\ ~trace[r][n].ok
                  /\ trace[r][n].tier = Len(fallbackModels) - 1
                  /\ ~includes429(trace[r][n].message)
                  /\ trace[r][n].retry = maxRetries
            /\ \A i \in 1..n :
                  ( /\ ~trace[r][i].ok
                    /\ ~includes429(trace[r][i].message)
                    /\ trace[r][i].retry < maxRetries )
                  => /\ trace[r][i].wait =
                           getRetryDelay(trace[r][i].retry, jitter)
                     /\ i < n => trace[r][i + 1].tier = trace[r][i].tier
                     /\ i = n => pc[r] # "exhausted"


\* C25: in every reachable state of a logical request fallbackLevel lies
\* between -1 and Len(fallbackModels) - 1, the factory was never asked for a
\* target beyond the end of the cascade, and no logged model is
\* 'unknown-fallback'
C25_TierWithinCascade ==
    /\ \A r \in active :
          /\ fallbackLevel[r] \in -1..(Len(fallbackModels) - 1)
          /\ \A i \in 1..Len(factoryCalls[r]) :
                /\ factoryCalls[r][i][2] \in 0..(Len(fallbackModels) - 1)
                /\ factoryCalls[r][i][1] = fallbackModels[factoryCalls[r][i][2] + 1]
    /\ \A i \in 1..Len(usageLog) : usageLog[i].model # "unknown-fallback"

\* an attempt on the last target of the three-target cascade has failed
\* and was logged
C25_Witness ==
    /\ Len(fallbackModels) = 3
    /\ fallbackLevel[1] = 2
    /\ Len(trace[1]) > 0
    /\ trace[1][Len(trace[1])].tier = 2
    /\ usageLog[1].model = "gpt-3.5-turbo"
    /\ ~usageLog[1].success


----------------------------------------------------------------------------
(* Two logical requests of callGPT4 in flight at once: each invocation of *)
(* makeApiRequestWithMultiFallback has its own retryCount, fallbackLevel   *)
(* and currentApiCall (lines 134-138); the rate window and the usage log   *)
(* are the module's (lines 18, 80).  Request 1 may meet one of the odd     *)
(* failures, request 2 none.                                               *)

\* the attempts the two requests start between them
MaxJointAttempts == 5

TwoInit ==
    /\ now = rateLimitResetTime
    /\ requests \in InitWindows
    /\ usageLog = <<>>
    /\ alerts = {}
    /\ ret = NoRet
    /\ fallbackModels = SubSeq(ConfiguredFallbackModels, 1, 2)
    /\ jitter = 0
    /\ active = Reqs
    /\ pc = [r \in Reqs |-> "loop"]
    /\ retryCount = [r \in Reqs |-> 0]
    /\ fallbackLevel = [r \in Reqs |-> -1]
    /\ currentApiCall = [r \in Reqs |-> PrimaryCall]
    /\ error = [r \in Reqs |-> <<>>]
    /\ waitMs = [r \in Reqs |-> 0]
    /\ wakeAt = [r \in Reqs |-> 0]
    /\ outcome = [r \in Reqs |-> NoOutcome]
    /\ trace = [r \in Reqs |-> <<>>]
    /\ factoryCalls = [r \in Reqs |-> <<>>]
    /\ oddErrors = [r \in Reqs |-> IF r = 1 THEN MaxOddErrors - 1
                                  ELSE MaxOddErrors]
    /\ fetched = [r \in Reqs |-> 0]
    /\ recorded = [r \in Reqs |-> 0]
    /\ CalledBy("callGPT4")
    /\ NoDirectCalls
    /\ NoStreams
    /\ targetElement =
         [r \in Reqs |-> [present |-> FALSE, children |-> <<>>]]

JointAttempts == recorded[1] + recorded[2]

TwoNext ==
    \/ \E r \in active : JointAttempts < MaxJointAttempts /\ StartAttempt(r)
    \/ \E r \in active : AdmitWaitDone(r)
    \/ \E r \in active : CallSucceeds(r)
    \/ \E r \in active : CallFails(r)
    \/ \E r \in active : BackoffDone(r)

SpecTwo == TwoInit /\ [][TwoNext]_vars

\* C27: with two logical requests sharing the rate window, the window never
\* retains more than rateLimitPerMinute timestamps: a request that found
\* the budget exhausted records its call only when the window has room
C27_WindowNeverOverfull ==
    Len(requests) <= rateLimitPerMinute


\* the loop variables of request r
Locals(r) == <<retryCount[r], fallbackLevel[r], currentApiCall[r]>>

\* C26: with two logical requests in flight, the retryCount, fallbackLevel
\* and current call of one request change only in a step that handles that
\* request's own attempt outcome; a step in which the other request's
\* attempt ends or its tier changes leaves them as they were
C26_LocalsAreTheRequestsOwn ==
    [][\A r \in Reqs : \A q \in Reqs \ {r} :
          /\ Locals(r)' # Locals(r) =>
                /\ pc[r] \in InFlight \cup {"backoff"}
                /\ pc'[r] # pc[r]
                /\ pc'[q] = pc[q]
          /\ (trace'[q] # trace[q] \/ Locals(q)' # Locals(q)) =>
                Locals(r)' = Locals(r)]_vars

\* request 1 has moved to fallback tier 0 while request 2, which has
\* failed once itself, is still on the primary with its own retryCount
C26_Witness ==
    /\ fallbackLevel[1] = 0
    /\ retryCount[1] = 0
    /\ Len(trace[1]) = 4
    /\ pc[2] = "inflight"
    /\ fallbackLevel[2] = -1
    /\ retryCount[2] = 1
    /\ currentApiCall[2] = PrimaryCall


\* the wait the rate-limit branch (lines 240-245) gives a failed attempt
RateLimitWait(a) == 5000 + getRetryDelay(a.retry, jitter)

\* C29: a failed attempt takes the rate-limit branch (the extra 5000 ms
\* wait, no comparison with maxRetries) if and only if the HTTP status of
\* the failed exchange is 429; a failure with any other status, whatever
\* its error text, takes the retry-or-fallback branch
C29_RateLimitBranchIffStatus429 ==
    \A r \in active :
        \A i \in 1..Len(trace[r]) :
            ~trace[r][i].ok =>
                ( (trace[r][i].wait = RateLimitWait(trace[r][i]))
                    <=> (errorCodeOf(trace[r][i].message) = {429}) )


\* C30: every line handled that is a whole well-formed data frame with a
\* non-empty delta appends that delta to the transcript, whatever the text
\* of the delta is, the characters [DONE] included
C30_EveryDeltaContributes ==
    \A r \in Reqs : \A i \in 1..Len(lines[r]) :
        LET l == lines[r][i]
            delta == DeltaOf(Append(l.line, Newline))
        IN  delta # <<>> => l.after = l.before \o delta


----------------------------------------------------------------------------
(* The primary executable of streamResponse (lines 1185-1275) run by the  *)
(* loop: every attempt opens a response body of its own and decodes it     *)
(* into streamedContent, the variable of line 1155.                        *)

\* the bodies an attempt may be answered with, a chunk per frame
RetryStreams ==
    { <<DataFrame(<<"a">>), DataFrame(<<"b">>)>>, <<DataFrame(<<"b">>)>> }

\* reader.read() rejects in the middle of a body
ReadError == <<"network error">>

StreamsPrimary(r) ==
    /\ caller[r] = "streamResponse"
    /\ currentApiCall[r].kind = "primary"
    /\ pc[r] = "inflight"

\* lines 1187-1211: the response is ok and its body is about to be read
StreamOpens(r) ==
    /\ StreamsPrimary(r)
    /\ body[r].state # "open"
    /\ \E frames \in RetryStreams :
         body' = [body EXCEPT ![r] =
                    [state |-> "open", frames |-> frames,
                     text |-> Flatten(frames), cut |-> 0,
                     chunks |-> frames]]
    /\ UNCHANGED <<sharedVars, reqVars, waitTimes, delay, logged>>
    /\ UNCHANGED <<streamedContent, rendered, lines>>

\* line 1215: reader.read() rejects; the error leaves the executable and is
\* caught by the loop
StreamBreaks(r) ==
    /\ StreamsPrimary(r)
    /\ body[r].state = "open"
    /\ CatchError(r, ReadError)
    /\ body' = [body EXCEPT ![r].state = "broken"]
    /\ UNCHANGED <<requests, ret, fallbackModels, jitter, active>>
    /\ UNCHANGED <<waitTimes, delay, logged, streamedContent, rendered, lines>>
    /\ UNCHANGED <<oddErrors, caller, fetched, recorded>>

\* lines 1216-1219 and 1274: reader.read() reports done and the executable
\* returns streamedContent to the loop
StreamReturns(r) ==
    /\ StreamsPrimary(r)
    /\ body[r].state = "open"
    /\ Len(body[r].chunks) = 0
    /\ ReturnResult(r, [content |-> streamedContent[r],
                        model |-> currentApiCall[r].model,
                        level |-> currentApiCall[r].level])
    /\ body' = [body EXCEPT ![r].state = "done"]
    /\ UNCHANGED <<waitTimes, delay, logged, streamedContent, rendered, lines>>

RetryInit ==
    /\ now = rateLimitResetTime
    /\ requests \in InitWindows
    /\ usageLog = <<>>
    /\ alerts = {}
    /\ ret = NoRet
    /\ fallbackModels = SubSeq(ConfiguredFallbackModels, 1, 2)
    /\ jitter = 0
    /\ InitRequests({1})
    /\ CalledBy("streamResponse")
    /\ NoDirectCalls
    /\ NoStreams
    /\ targetElement =
         [r \in Reqs |-> [present |-> r \in active, children |-> <<>>]]

\* an attempt on the primary fails by StreamBreaks, before the first chunk
\* or after some; CallSucceeds and CallFails are the fallback executables
RetryNext ==
    \/ \E r \in active : StartAttempt(r)
    \/ \E r \in active : AdmitWaitDone(r)
    \/ \E r \in active : StreamOpens(r)
    \/ \E r \in active : StreamsPrimary(r) /\ ReadChunk(r)
    \/ \E r \in active : StreamBreaks(r)
    \/ \E r \in active : StreamReturns(r)
    \/ \E r \in active : ~StreamsPrimary(r) /\ CallSucceeds(r)
    \/ \E r \in active : ~StreamsPrimary(r) /\ CallFails(r)
    \/ \E r \in active : BackoffDone(r)
    \/ \E r \in active : FallbackStreamFails(r)

SpecRetry == RetryInit /\ [][RetryNext]_vars

\* the transcript the body of an attempt gives a decoder that starts empty
TranscriptOf(b) ==
    decodeAll(FreshDecoder, b.frames, [present |-> FALSE, children |-> <<>>])
        .streamedContent

\* C28: when a streaming attempt on the primary failed after deltas had
\* been accumulated and the target is retried, the transcript the
\* successful attempt returns holds only the deltas of that attempt's own
\* body
C28_TranscriptOfSuccessfulAttempt ==
    \A r \in active :
        ( /\ pc[r] = "succeeded"
          /\ body[r].state = "done" )
        => outcome[r].value[1].content = TranscriptOf(body[r])

====
